---- MODULE Spec2Model ----
(***************************************************************************)
(* Model of src/app.py (cattle finance ledger, Streamlit + SQLite).        *)
(*                                                                         *)
(* Text values that the code slices, formats or sorts (the 'YYYY-MM' month *)
(* key, the 'YYYY' year) are sequences of one-character strings, so that   *)
(* strftime / f"{m:02d}" / str[:4] / str[5:7].astype(int) are computed and *)
(* not assumed to round-trip.  Labels the code only compares for equality  *)
(* are plain strings: "income" stands for the type label of the second     *)
(* radio choice (line 324), "expense" for the first.                       *)
(* Amounts are whole yen.  Quotients (per-head value, percent change,      *)
(* mean) are exact rationals <<numerator, denominator>> in lowest terms.   *)
(* A missing value (NaN / pd.NA) is the empty tuple <<>>, a present value  *)
(* v is <<v>>.  A DataFrame is the set of its rows; row order is not       *)
(* modelled.                                                               *)
(***************************************************************************)
EXTENDS Integers, Sequences, FiniteSets, TLC

VARIABLES
    finance,         \* table finance of cattle_finance.db
    headcount,       \* table headcount of cattle_finance.db
    upserted,        \* history: month key -> arguments of the latest upsert_headcount
    pc,              \* position in main()
    df,              \* main's df, the transactions as loaded
    head_df,         \* main's head_df, the headcounts as loaded
    selected_years,  \* value of the year multiselect
    today,           \* date.today()
    fig,             \* what plot_monthly_summary showed
    forecast,        \* the forecast series
    screen           \* what else main() showed in this run

vars == <<finance, headcount, upserted, pc,
          df, head_df, selected_years, today, fig, forecast, screen>>

----------------------------------------------------------------------------
(* Bounds and input sets *)

\* rows of a transaction collection handed to the report functions
MaxTx == 3
\* rows the finance table may hold in a program run
MaxRows == 2

Years == {2023, 2024, 2025}
Months == {1, 12}
Amounts == {0, 1000}
FlowTypes == {"income", "expense"}
Categories == {"other"}
HeadValues == {0, 10}
Notes == {<<>>, <<"n">>}

Dates == [year : Years, month : Months, day : {15}]
\* dates offered to the two forms in a program run
FormDates == {d \in Dates : d.month = 1 /\ d.year >= 2024}
\* amounts entered in the transaction form in a program run
FormAmounts == {a \in Amounts : a > 0}
\* months of the headcount registries handed to the report functions
HeadDates == {d \in Dates : d.year = 2024}
Todays == [year : {2024, 2025}, month : {1, 6, 12}, day : {15}]

----------------------------------------------------------------------------
(* Text *)

DigitChar == <<"0", "1", "2", "3", "4", "5", "6", "7", "8", "9">>

Digit(d) == DigitChar[d + 1]

DigitValue(c) == CHOOSE d \in 0..9 : Digit(d) = c

\* ord() of the characters that occur: '-' is 45, '0'..'9' are 48..57
CharCode(c) == IF c = "-" THEN 45 ELSE 48 + DigitValue(c)

\* decimal, zero-padded to width: %Y (4), %m / :02d (2)
RECURSIVE zfill(_, _)
zfill(n, width) ==
    IF width = 0 THEN <<>>
    ELSE zfill(n \div 10, width - 1) \o <<Digit(n % 10)>>

\* date_val.strftime("%Y-%m")
strftime_Ym(date_val) == zfill(date_val.year, 4) \o <<"-">> \o zfill(date_val.month, 2)

\* str(date_val)
str_date(date_val) == strftime_Ym(date_val) \o <<"-">> \o zfill(date_val.day, 2)

\* s[a:b]
Slice(s, a, b) == SubSeq(s, a + 1, IF b < Len(s) THEN b ELSE Len(s))

\* .astype(int) of a digit string
RECURSIVE astype_int(_)
astype_int(s) ==
    IF s = <<>> THEN 0
    ELSE astype_int(SubSeq(s, 1, Len(s) - 1)) * 10 + DigitValue(s[Len(s)])

\* s < t for str
RECURSIVE StrLess(_, _)
StrLess(s, t) ==
    IF t = <<>> THEN FALSE
    ELSE IF s = <<>> THEN TRUE
    ELSE IF CharCode(s[1]) # CharCode(t[1]) THEN CharCode(s[1]) < CharCode(t[1])
    ELSE StrLess(Tail(s), Tail(t))

\* the list as selected, not sorted
unsorted(xs) == xs

\* sorted(list of str)
RECURSIVE sorted(_)
sorted(xs) ==
    IF xs = <<>> THEN <<>>
    ELSE LET i == CHOOSE i \in 1..Len(xs) :
                     \A j \in 1..Len(xs) : ~StrLess(xs[j], xs[i])
             rest == SubSeq(xs, 1, i - 1) \o SubSeq(xs, i + 1, Len(xs))
         IN  <<xs[i]>> \o sorted(rest)

\* x in list / Series.isin(list)
isin(x, xs) == \E i \in 1..Len(xs) : xs[i] = x

----------------------------------------------------------------------------
(* Exact quotients *)

Abs(n) == IF n < 0 THEN -n ELSE n

RECURSIVE GCD(_, _)
GCD(a, b) == IF b = 0 THEN a ELSE GCD(b, a % b)

\* n / d, d # 0
Quot(n, d) ==
    LET g == GCD(Abs(n), Abs(d))
        s == IF d < 0 THEN -1 ELSE 1
    IN  <<(s * n) \div g, (s * d) \div g>>

QuotSub(q, n) == Quot(q[1] - n * q[2], q[2])

QuotMul(q, n) == Quot(q[1] * n, q[2])

----------------------------------------------------------------------------
(* Database functions *)

NoRows == {}

\* INSERT INTO finance ...; id INTEGER PRIMARY KEY AUTOINCREMENT
insert_data(conn, date_val, category, type_, amount, note) ==
    conn \cup {[id |-> Cardinality(conn) + 1,
                date |-> str_date(date_val),
                month |-> strftime_Ym(date_val),
                category |-> category,
                type |-> type_,
                amount |-> amount,
                note |-> note]}

\* SELECT * FROM finance
load_data(conn) == conn

\* INSERT without looking for the month's row
upsert_headcount_AlwaysInsert(conn, month_key, headcount_val, note) ==
    conn \cup {[month |-> month_key, headcount |-> headcount_val, note |-> note]}

\* UPDATE when a row of the month exists, INSERT otherwise
upsert_headcount(conn, month_key, headcount_val, note) ==
    LET exists == Cardinality({h \in conn : h.month = month_key}) > 0
    IN  IF exists
        THEN {IF h.month = month_key
              THEN [month |-> h.month, headcount |-> headcount_val, note |-> note]
              ELSE h : h \in conn}
        ELSE conn \cup {[month |-> month_key, headcount |-> headcount_val, note |-> note]}

\* SELECT * FROM headcount
load_headcounts(conn) == conn

----------------------------------------------------------------------------
(* Report functions *)

RECURSIVE SumAmount(_)
SumAmount(rows) ==
    IF rows = {} THEN 0
    ELSE LET r == CHOOSE r \in rows : TRUE
         IN  r.amount + SumAmount(rows \ {r})

\* month_num taken from str[5:6]
WithYearMonth_ShortSlice(d) ==
    {[id |-> r.id, date |-> r.date, month |-> r.month, category |-> r.category,
      type |-> r.type, amount |-> r.amount, note |-> r.note,
      year |-> Slice(r.month, 0, 4),
      month_num |-> astype_int(Slice(r.month, 5, 6))] : r \in d}

\* df["year"] = df["month"].str[:4]; df["month_num"] = df["month"].str[5:7].astype(int)
WithYearMonth(d) ==
    {[id |-> r.id, date |-> r.date, month |-> r.month, category |-> r.category,
      type |-> r.type, amount |-> r.amount, note |-> r.note,
      year |-> Slice(r.month, 0, 4),
      month_num |-> astype_int(Slice(r.month, 5, 7))] : r \in d}

\* the keys of groupby([year, month_num, ...]), with every month of a year filled in
Groups_AllMonths(d2) == {<<r.year, m>> : r \in d2, m \in 1..12}

\* the keys of groupby([year, month_num, ...]): the (year, month) pairs that occur
Groups(d2) == {<<r.year, r.month_num>> : r \in d2}

\* the month's total whatever the type
TypeTotal_AnyType(d2, year, month_num, type_) ==
    SumAmount({r \in d2 : r.year = year /\ r.month_num = month_num})

\* one cell of groupby([year, month_num, type])["amount"].sum().unstack(fill_value=0),
\* read with summary.get(type, 0)
TypeTotal(d2, year, month_num, type_) ==
    IF type_ \in {r.type : r \in d2}
    THEN SumAmount({r \in d2 : r.year = year /\ r.month_num = month_num /\ r.type = type_})
    ELSE 0

\* dict(zip(head_df["month"], head_df["headcount"]))
head_map(hd) ==
    [m \in {h.month : h \in hd} |-> (CHOOSE h \in hd : h.month = m).headcount]

\* summary["month_key"].map(head_map)
MapHeadcount(month_key, hm) ==
    IF month_key \in DOMAIN hm THEN <<hm[month_key]>> ELSE <<>>

\* a headcount of 0 reported as a per-head value of 0
per_head_ZeroAsValue(net, hc) ==
    IF hc # <<>>
    THEN (IF hc[1] # 0 THEN <<Quot(net, hc[1])>> ELSE <<Quot(0, 1)>>)
    ELSE <<>>

\* the lambda of line 124
per_head(net, hc) ==
    IF hc # <<>> /\ hc[1] # 0 THEN <<Quot(net, hc[1])>> ELSE <<>>

\* year + "-" + f"{int(month_num):02d}"
month_key_of(year, month_num) == year \o <<"-">> \o zfill(month_num, 2)

\* the summary table of lines 104-124
summary_of(d, hd) ==
    LET d2 == WithYearMonth(d)
        hm == head_map(hd)
        row(year, month_num) ==
            LET income == TypeTotal(d2, year, month_num, "income")
                expense == TypeTotal(d2, year, month_num, "expense")
                net == income - expense
                hc == MapHeadcount(month_key_of(year, month_num), hm)
            IN  [year |-> year, month_num |-> month_num,
                 income |-> income, expense |-> expense, net |-> net,
                 month_key |-> month_key_of(year, month_num),
                 headcount |-> hc, per_head |-> per_head(net, hc)]
    IN  {row(g[1], g[2]) : g \in Groups(d2)}

\* cur_val / prev_val * 100
percent_change_Ratio(cur_val, prev_val) == QuotMul(Quot(cur_val, prev_val), 100)

\* (cur_val / prev_val - 1) * 100
percent_change(cur_val, prev_val) == QuotMul(QuotSub(Quot(cur_val, prev_val), 1), 100)

\* lines 166-181: the percent-change points, or none
yoy_of(summary, years) ==
    IF Len(years) >= 2
    THEN LET sel_sorted == sorted(years)
             current == sel_sorted[Len(sel_sorted)]
             prev == sel_sorted[Len(sel_sorted) - 1]
             cur_df == {r \in summary : r.year = current}
             prev_df == {r \in summary : r.year = prev}
             months_common == {r.month_num : r \in cur_df} \cap {r.month_num : r \in prev_df}
             net_at(t, m) == (CHOOSE r \in t : r.month_num = m).net
         IN  {[x |-> m, y |-> percent_change(net_at(cur_df, m), net_at(prev_df, m))] :
                  m \in {m \in months_common : net_at(prev_df, m) # 0}}
    ELSE {}

NoFig(msg) == [msg |-> msg, summary |-> {}, bars |-> {}, per_head |-> {}, yoy |-> {}]

plot_monthly_summary(d, hd, years) ==
    IF d = {} THEN NoFig("no_data")
    ELSE LET summary == summary_of(d, hd)
             summary_sel == {r \in summary : isin(r.year, years)}
         IN  IF summary_sel = {} THEN NoFig("no_data_selected_years")
             ELSE [msg |-> "chart",
                   summary |-> summary,
                   bars |-> {[year |-> r.year, x |-> r.month_num, y |-> r.net] :
                                r \in summary_sel},
                   per_head |-> {[year |-> r.year, x |-> r.month_num, y |-> r.per_head[1]] :
                                r \in {r \in summary_sel : r.per_head # <<>>}},
                   yoy |-> yoy_of(summary, years)]

----------------------------------------------------------------------------
(* The other three tabs *)

\* filter_by_year
filter_by_year(d, years) ==
    IF d = {} \/ years = <<>> THEN {}
    ELSE {r \in WithYearMonth(d) : isin(r.year, years)}

\* groupby(key)["amount"].sum().reset_index(), of rows [id, key, amount]
GroupSum(keyed) ==
    {[key |-> k, amount |-> SumAmount({r \in keyed : r.key = k})] :
        k \in {r.key : r \in keyed}}

YearCategory(r) == <<Slice(r.month, 0, 4), r.category>>
MonthType(r) == <<r.month, r.type>>
MonthCategory(r) == <<r.month, r.category>>

plot_expense_pie(d, years) ==
    LET df_sel == filter_by_year(d, years)
        expense_df == {r \in df_sel : r.type = "expense"}
    IN  IF expense_df = {} THEN [msg |-> "no_expense_data", data |-> {}]
        ELSE [msg |-> "chart",
              data |-> GroupSum({[id |-> r.id, key |-> YearCategory(r), amount |-> r.amount] :
                                    r \in expense_df})]

plot_trend(d, years) ==
    LET df_sel == filter_by_year(d, years)
    IN  IF df_sel = {} THEN [msg |-> "no_data_selected_years", data |-> {}]
        ELSE [msg |-> "chart",
              data |-> GroupSum({[id |-> r.id, key |-> MonthType(r), amount |-> r.amount] :
                                    r \in df_sel})]

plot_category_trend(d, years) ==
    LET df_sel == filter_by_year(d, years)
        expense_df == {r \in df_sel : r.type = "expense"}
    IN  IF expense_df = {} THEN [msg |-> "no_expense_data", data |-> {}]
        ELSE [msg |-> "chart",
              data |-> GroupSum({[id |-> r.id, key |-> MonthCategory(r), amount |-> r.amount] :
                                    r \in expense_df})]

----------------------------------------------------------------------------
(* main() *)

RECURSIVE SeqOf(_)
SeqOf(S) ==
    IF S = {} THEN <<>>
    ELSE LET x == CHOOSE x \in S : TRUE IN <<x>> \o SeqOf(S \ {x})

\* sorted(df["month"].str[:4].unique().tolist())
available_years(d) == sorted(SeqOf({Slice(r.month, 0, 4) : r \in d}))

\* the lists of distinct members of S
RECURSIVE Picks(_)
Picks(S) == {<<>>} \cup UNION {{<<x>> \o t : t \in Picks(S \ {x})} : x \in S}

\* what st.multiselect(options) can return: options picked, each once, in any order
Multiselect(options) == Picks({options[i] : i \in 1..Len(options)})

NoTab == [msg |-> "none", data |-> {}]
SelectYear == [msg |-> "select_year", data |-> {}]

BlankScreen ==
    [warning |-> "none", info |-> "none",
     tab2 |-> NoTab, tab3 |-> NoTab, tab4 |-> NoTab,
     csv |-> <<>>, finance_table |-> NoTab, headcount_table |-> NoTab]

\* tab 1 drawn without looking at the selection
tab1_NoGuard(d, hd, years) == plot_monthly_summary(d, hd, years)

\* lines 385-389
tab1(d, hd, years) ==
    IF years # <<>> THEN plot_monthly_summary(d, hd, years) ELSE NoFig("select_year")

\* lines 391-395
tab2(d, years) == IF years # <<>> THEN plot_expense_pie(d, years) ELSE SelectYear

\* lines 397-401
tab3(d, years) == IF years # <<>> THEN plot_trend(d, years) ELSE SelectYear

\* lines 403-407
tab4(d, years) == IF years # <<>> THEN plot_category_trend(d, years) ELSE SelectYear

\* lines 352-368: open the database, load both tables, read the year widget
MainLoad ==
    /\ pc = "idle"
    /\ df' = load_data(finance)
    /\ head_df' = load_headcounts(headcount)
    /\ selected_years' \in Multiselect(available_years(load_data(finance)))
    /\ fig' = NoFig("none")
    /\ screen' = BlankScreen
    /\ pc' = "loaded"
    /\ UNCHANGED <<finance, headcount, upserted, today, forecast>>

\* lines 370-410: the warning, the four tabs and the CSV download
MainCharts ==
    /\ pc = "loaded"
    /\ LET warning == IF selected_years = <<>> /\ available_years(df) # <<>>
                      THEN "select_at_least_one_year" ELSE "none"
       IN  IF df = {}
           THEN /\ fig' = NoFig("none")
                /\ screen' = [screen EXCEPT !.warning = warning, !.info = "no_data_yet"]
           ELSE /\ fig' = tab1(df, head_df, selected_years)
                /\ screen' = [screen EXCEPT
                      !.warning = warning,
                      !.tab2 = tab2(df, selected_years),
                      !.tab3 = tab3(df, selected_years),
                      !.tab4 = tab4(df, selected_years),
                      !.csv = <<df>>]
    /\ pc' = "charted"
    /\ UNCHANGED <<finance, headcount, upserted, df, head_df, selected_years, today, forecast>>

\* data_input_form with its button pressed
DataInputForm ==
    \E date_val \in FormDates, category \in Categories, type_ \in FlowTypes,
       amount \in FormAmounts :
        /\ Cardinality(finance) < MaxRows
        /\ finance' = insert_data(finance, date_val, category, type_, amount, <<>>)
        /\ UNCHANGED <<headcount, upserted>>

\* headcount_input_form with its button pressed
HeadcountInputForm ==
    \E date_for_month \in FormDates, headcount_val \in HeadValues, note \in Notes :
        LET month_key == strftime_Ym(date_for_month)
        IN  /\ headcount' = upsert_headcount(headcount, month_key, headcount_val, note)
            /\ upserted' = [m \in DOMAIN upserted \cup {month_key} |->
                               IF m = month_key THEN <<headcount_val, note>> ELSE upserted[m]]
            /\ UNCHANGED finance

\* lines 412-414: the two forms; a run sees at most one button pressed
MainForms ==
    /\ pc = "charted"
    /\ \/ DataInputForm
       \/ HeadcountInputForm
       \/ UNCHANGED <<finance, headcount, upserted>>
    /\ pc' = "formed"
    /\ UNCHANGED <<df, head_df, selected_years, today, fig, forecast, screen>>

\* lines 418-421 and 424-427: a data table, or the message that there is none
dataframe(d, msg) == IF d = {} THEN [msg |-> msg, data |-> {}] ELSE [msg |-> "table", data |-> d]

\* the two data tables drawn from the database as it is now
MainTables_Reload ==
    /\ pc = "formed"
    /\ screen' = [screen EXCEPT
          !.finance_table = dataframe(load_data(finance), "no_data_yet"),
          !.headcount_table = dataframe(load_headcounts(headcount), "no_headcount_data")]
    /\ pc' = "idle"
    /\ UNCHANGED <<finance, headcount, upserted, df, head_df, selected_years, today, fig,
                   forecast>>

\* lines 416-429: the two data tables
MainTables ==
    /\ pc = "formed"
    /\ screen' = [screen EXCEPT
          !.finance_table = dataframe(df, "no_data_yet"),
          !.headcount_table = dataframe(head_df, "no_headcount_data")]
    /\ pc' = "idle"
    /\ UNCHANGED <<finance, headcount, upserted, df, head_df, selected_years, today, fig,
                   forecast>>

\* init_db on a new database file, before the first run
Init ==
    /\ finance = NoRows
    /\ headcount = NoRows
    /\ upserted = <<>>
    /\ pc = "idle"
    /\ df = {}
    /\ head_df = {}
    /\ selected_years = <<>>
    /\ today \in {t \in Todays : t.year = 2025 /\ t.month = 6}
    /\ fig = NoFig("none")
    /\ forecast = {}
    /\ screen = BlankScreen

Next == MainLoad \/ MainCharts \/ MainForms \/ MainTables

Spec == Init /\ [][Next]_vars

----------------------------------------------------------------------------
(* The database functions called with arguments no form produces *)

InvalidTx == {[type |-> "other", amount |-> 1000], [type |-> "income", amount |-> -1000]}

CallInsertData ==
    /\ pc = "idle"
    /\ Cardinality(finance) < MaxRows
    /\ \E date_val \in {d \in FormDates : d.year = 2025}, t \in InvalidTx :
          finance' = insert_data(finance, date_val, "other", t.type, t.amount, <<>>)
    /\ UNCHANGED <<headcount, upserted, pc, df, head_df, selected_years, today, fig,
                   forecast, screen>>

CallUpsertHeadcount ==
    /\ pc = "idle"
    /\ \E date_for_month \in {d \in FormDates : d.year = 2025} :
          LET month_key == strftime_Ym(date_for_month)
          IN  /\ headcount' = upsert_headcount(headcount, month_key, -1, <<>>)
              /\ upserted' = [m \in DOMAIN upserted \cup {month_key} |->
                                 IF m = month_key THEN <<-1, <<>>>> ELSE upserted[m]]
    /\ UNCHANGED <<finance, pc, df, head_df, selected_years, today, fig, forecast, screen>>

NextCalls == Next \/ CallInsertData \/ CallUpsertHeadcount

SpecCalls == Init /\ [][NextCalls]_vars

----------------------------------------------------------------------------
(* Forecast generator (spec.md 4.4) *)

RECURSIVE SumNet(_)
SumNet(rows) ==
    IF rows = {} THEN 0
    ELSE LET r == CHOOSE r \in rows : TRUE
         IN  r.net + SumNet(rows \ {r})

forecast_of(summary, current) ==
    LET past == {r \in summary : astype_int(r.year) < current.year}
    IN  {[x |-> m,
          y |-> Quot(SumNet({r \in past : r.month_num = m}),
                     Cardinality({r \in past : r.month_num = m})),
          is_realized |-> (m <= current.month)] :
             m \in {r.month_num : r \in past}}

----------------------------------------------------------------------------
(* The report functions on their own, over bounded inputs *)

TxInputs == [date : Dates, category : Categories, type : FlowTypes, amount : Amounts]

\* a total order on TxInputs, to draw each collection once
Rank(t) ==
    (((t.date.year % 100) * 100 + t.date.month) * 2
        + (IF t.type = "income" THEN 0 ELSE 1)) * 10000 + t.amount

RECURSIVE FinanceOf(_)
FinanceOf(s) ==
    IF s = <<>> THEN NoRows
    ELSE LET t == s[Len(s)]
         IN  insert_data(FinanceOf(SubSeq(s, 1, Len(s) - 1)),
                         t.date, t.category, t.type, t.amount, <<>>)

\* every transaction collection of at most MaxTx rows
Collections ==
    {load_data(FinanceOf(s)) :
        s \in {s \in UNION {[1..n -> TxInputs] : n \in 0..MaxTx} :
                  \A i \in 1..(Len(s) - 1) : Rank(s[i]) <= Rank(s[i + 1])}}

\* every headcount registry over the months of HeadDates
Registries ==
    UNION {{{[month |-> strftime_Ym(d), headcount |-> f[d], note |-> <<>>] : d \in K} :
               f \in [K -> HeadValues]} : K \in SUBSET HeadDates}

InitInputs ==
    /\ finance = NoRows
    /\ headcount = NoRows
    /\ upserted = <<>>
    /\ pc = "input"
    /\ df \in Collections
    /\ fig = NoFig("none")
    /\ forecast = {}
    /\ screen = BlankScreen

InitSummary ==
    /\ InitInputs
    /\ selected_years = available_years(df)
    /\ head_df = {}
    /\ today \in {t \in Todays : t.year = 2025 /\ t.month = 6}

\* transactions of the registries' year and later, with every registry
InitPerHead ==
    /\ InitInputs
    /\ \A r \in df : ~(\A d \in HeadDates : StrLess(r.month, strftime_Ym(d)))
    /\ selected_years = available_years(df)
    /\ head_df \in Registries
    /\ today \in {t \in Todays : t.year = 2025 /\ t.month = 6}

InitYoY ==
    /\ InitInputs
    /\ head_df = {}
    /\ selected_years \in Multiselect(available_years(df))
    /\ today \in {t \in Todays : t.year = 2025 /\ t.month = 6}

InitForecast ==
    /\ InitInputs
    /\ head_df = {}
    /\ selected_years = available_years(df)
    /\ today \in Todays

Plot ==
    /\ pc = "input"
    /\ fig' = plot_monthly_summary(df, head_df, selected_years)
    /\ pc' = "plotted"
    /\ UNCHANGED <<finance, headcount, upserted, df, head_df, selected_years, today,
                   forecast, screen>>

Forecast ==
    /\ pc = "input"
    /\ forecast' = forecast_of(summary_of(df, head_df), today)
    /\ pc' = "forecast"
    /\ UNCHANGED <<finance, headcount, upserted, df, head_df, selected_years, today,
                   fig, screen>>

SpecSummary == InitSummary /\ [][Plot]_vars

SpecPerHead == InitPerHead /\ [][Plot]_vars

SpecYoY == InitYoY /\ [][Plot]_vars

SpecForecast == InitForecast /\ [][Forecast]_vars

----------------------------------------------------------------------------
(* What the claims speak of, read off the inputs directly *)

\* 'YYYY-MM' and 'YYYY' of the months and years the claims range over
MonthText == [y \in Years, m \in 1..12 |-> strftime_Ym([year |-> y, month |-> m])]

YearText == [y \in Years |-> zfill(y, 4)]

\* the transactions of df dated in month m of year y
TxOf(y, m) == {r \in df : r.month = MonthText[y, m]}

FlowOf(rows, type_) == SumAmount({r \in rows : r.type = type_})

NetOf(rows) == FlowOf(rows, "income") - FlowOf(rows, "expense")

RowsAt(summary, y, m) == {r \in summary : r.year = YearText[y] /\ r.month_num = m}

Greatest(S) == CHOOSE y \in S : \A z \in S : z <= y

SelectedYearNumbers == {astype_int(selected_years[i]) : i \in 1..Len(selected_years)}

----------------------------------------------------------------------------
(* Claims on the monthly summary (SpecSummary) and the per-head series (SpecPerHead) *)

\* C1: every month with a transaction has exactly one summary row, whose
\* income total is the sum of that month's income amounts, whose expense
\* total is the sum of its expense amounts (0 when it has none of that type)
\* and whose net balance is income total minus expense total.
C1_MonthlyTotals ==
    pc = "plotted" =>
        \A y \in Years, m \in 1..12 :
            TxOf(y, m) # {} =>
                \E row \in fig.summary :
                    /\ RowsAt(fig.summary, y, m) = {row}
                    /\ row.income = FlowOf(TxOf(y, m), "income")
                    /\ row.expense = FlowOf(TxOf(y, m), "expense")
                    /\ row.net = row.income - row.expense

C1_Witness ==
    /\ pc = "plotted"
    /\ \E a, b \in fig.summary :
          /\ a.income > 0 /\ a.expense > 0
          /\ b.income = 0 /\ b.expense > 0 /\ b.net < 0

\* C9: the summary has a row for a month exactly when a transaction falls in
\* it; a month without transactions has no row, and a month whose income and
\* expense cancel has a row with net balance 0.
C9_AbsentIsNotZero ==
    pc = "plotted" =>
        /\ \A row \in fig.summary :
              \E y \in Years, m \in 1..12 : row \in RowsAt(fig.summary, y, m)
        /\ \A y \in Years, m \in 1..12 :
              /\ RowsAt(fig.summary, y, m) # {} <=> TxOf(y, m) # {}
              /\ (TxOf(y, m) # {} /\ NetOf(TxOf(y, m)) = 0) =>
                    \E row \in RowsAt(fig.summary, y, m) : row.net = 0

C9_Witness ==
    /\ pc = "plotted"
    /\ \E row \in fig.summary : row.income > 0 /\ row.expense = row.income /\ row.net = 0
    /\ \E y \in Years, m \in Months : RowsAt(fig.summary, y, m) = {}

\* C2: a summary row whose month has a registry record with headcount > 0
\* carries per_head = net / headcount and is a point of the per-head series;
\* a row whose month has no record, or a record of headcount 0, carries no
\* per_head value and is no point of the series.
C2_PerHead ==
    pc = "plotted" =>
        \A y \in Years, m \in 1..12 :
            \A row \in RowsAt(fig.summary, y, m) :
                LET recs == {h \in head_df : h.month = MonthText[y, m]}
                    pts == {p \in fig.per_head : p.year = row.year /\ p.x = m}
                IN  IF \E h \in recs : h.headcount > 0
                    THEN /\ row.per_head # <<>>
                         /\ row.per_head[1][2] > 0
                         /\ \A h \in recs :
                               row.per_head[1][1] * h.headcount
                                   = NetOf(TxOf(y, m)) * row.per_head[1][2]
                         /\ pts = {[year |-> row.year, x |-> m, y |-> row.per_head[1]]}
                    ELSE /\ row.per_head = <<>>
                         /\ pts = {}

C2_Witness ==
    /\ pc = "plotted"
    /\ \E p \in fig.per_head : p.y = <<100, 1>>
    /\ \E row \in fig.summary : row.headcount = <<0>> /\ row.per_head = <<>>
    /\ \E row \in fig.summary : row.headcount = <<>> /\ row.per_head = <<>>

----------------------------------------------------------------------------
(* Claims on the year-over-year series (SpecYoY) *)

\* C3: with two or more years selected, month m is a point of the series
\* exactly when the greatest selected year and the second greatest both have
\* transactions in m and the prior year's net balance for m is not 0, and
\* the point is (current_net / prior_net - 1) * 100.
C3_YoY ==
    (pc = "plotted" /\ Len(selected_years) >= 2) =>
        LET cur == Greatest(SelectedYearNumbers)
            prior == Greatest(SelectedYearNumbers \ {cur})
        IN  \A m \in 1..12 :
                LET pts == {p \in fig.yoy : p.x = m}
                    cur_net == NetOf(TxOf(cur, m))
                    prior_net == NetOf(TxOf(prior, m))
                IN  IF TxOf(cur, m) # {} /\ TxOf(prior, m) # {} /\ prior_net # 0
                    THEN \E p \in fig.yoy :
                            /\ pts = {p}
                            /\ p.y[2] > 0
                            /\ p.y[1] * prior_net = (cur_net - prior_net) * 100 * p.y[2]
                    ELSE pts = {}

C3_Witness ==
    /\ pc = "plotted"
    /\ \E p \in fig.yoy : p.y = <<100, 1>>

\* C7: with fewer than two years selected the series is empty; otherwise it
\* is the series of the greatest and the second greatest selected year alone:
\* dropping every other year from the selection and from the transactions
\* leaves it unchanged.
C7_YearChoice ==
    pc = "plotted" =>
        IF Len(selected_years) < 2 THEN fig.yoy = {}
        ELSE LET cur == Greatest(SelectedYearNumbers)
                 prior == Greatest(SelectedYearNumbers \ {cur})
                 kept == UNION {TxOf(y, m) : y \in {cur, prior}, m \in 1..12}
             IN  /\ fig.yoy = plot_monthly_summary(kept, head_df,
                                    <<YearText[prior], YearText[cur]>>).yoy
                 /\ \A p \in fig.yoy : TxOf(cur, p.x) # {} /\ TxOf(prior, p.x) # {}

C7_Witness ==
    /\ pc = "plotted"
    /\ Len(selected_years) = 3
    /\ StrLess(selected_years[3], selected_years[1])
    /\ fig.yoy # {}

----------------------------------------------------------------------------
(* Claim on the forecast series (SpecForecast) *)

----------------------------------------------------------------------------
(* Claims on the program (Spec, SpecCalls) *)

\* C6: the headcount table holds exactly one row for each month key ever
\* upserted and none for any other, and the row of a month key carries the
\* headcount and note of the latest upsert for that key.
C6_OneRecordPerMonth ==
    /\ \A g, h \in headcount : g.month = h.month => g = h
    /\ {h.month : h \in headcount} = DOMAIN upserted
    /\ \A h \in headcount : <<h.headcount, h.note>> = upserted[h.month]

\* a run whose form overwrote one month's record and left another's alone
C6_Witness ==
    /\ pc = "formed"
    /\ \E g \in head_df, h \in headcount :
          /\ g.month = h.month /\ g.headcount # h.headcount /\ g.note # h.note
          /\ \E k \in head_df : k.month # g.month /\ k \in headcount

NoDataShown ==
    \/ screen.info = "no_data_yet"
    \/ fig.msg \in {"no_data", "no_data_selected_years"}
    \/ screen.tab3.msg = "no_data_selected_years"

SelectionRequiredShown ==
    /\ screen.warning = "select_at_least_one_year"
    /\ fig.msg = "select_year"
    /\ screen.tab2.msg = "select_year"
    /\ screen.tab3.msg = "select_year"
    /\ screen.tab4.msg = "select_year"

SeriesEmpty ==
    /\ fig.bars = {} /\ fig.per_head = {} /\ fig.yoy = {}
    /\ screen.tab2.data = {} /\ screen.tab3.data = {} /\ screen.tab4.data = {}

\* C8 as stated: whenever no year is selected, every series is empty and the
\* run shows 'selection required', never 'no data'.
C8_SelectionRequired ==
    (pc = "charted" /\ selected_years = <<>>) =>
        SeriesEmpty /\ SelectionRequiredShown /\ ~NoDataShown

\* C8, amended: when no year is selected and the transaction collection is
\* not empty, every series is empty and the run shows 'selection required',
\* never 'no data'; when the collection is empty the run shows 'no data' and
\* no 'selection required'; and 'no data' is shown only when the collection
\* is empty or the selected years hold no transaction.
C8_SelectionRequiredUnlessEmpty ==
    pc = "charted" =>
        /\ (selected_years = <<>> /\ df # {}) =>
              SeriesEmpty /\ SelectionRequiredShown /\ ~NoDataShown
        /\ df = {} =>
              SeriesEmpty /\ screen.info = "no_data_yet" /\ screen.warning = "none"
        /\ NoDataShown =>
              \/ df = {}
              \/ \A r \in df : ~isin(Slice(r.month, 0, 4), selected_years)

C8_Witness ==
    /\ pc = "charted"
    /\ selected_years = <<>>
    /\ df # {}
    /\ screen.warning = "select_at_least_one_year"

RunComplete == pc = "idle" /\ screen.finance_table.msg # "none"

\* C10: a run reads both tables once, at its start; the charts, the CSV and
\* both data tables of the run are those of that snapshot, whatever the forms
\* of the run wrote meanwhile; what they wrote is read by the next run.
C10_SingleSnapshot ==
    /\ [](RunComplete =>
            /\ screen.finance_table.data = df
            /\ screen.finance_table.msg = (IF df = {} THEN "no_data_yet" ELSE "table")
            /\ screen.headcount_table.data = head_df
            /\ screen.headcount_table.msg =
                  (IF head_df = {} THEN "no_headcount_data" ELSE "table")
            /\ df # {} =>
                  /\ screen.csv = <<df>>
                  /\ fig = tab1(df, head_df, selected_years)
                  /\ screen.tab2 = tab2(df, selected_years)
                  /\ screen.tab3 = tab3(df, selected_years)
                  /\ screen.tab4 = tab4(df, selected_years))
    /\ [][/\ pc = "idle" => (df' = finance /\ head_df' = headcount)
          /\ pc # "idle" => (df' = df /\ head_df' = head_df /\ selected_years' = selected_years)
          /\ pc \in {"charted", "formed"} =>
                (fig' = fig /\ screen'.csv = screen.csv /\ screen'.tab2 = screen.tab2
                 /\ screen'.tab3 = screen.tab3 /\ screen'.tab4 = screen.tab4)]_vars

\* a finished run whose forms wrote a transaction that its table does not show
C10_Witness ==
    /\ RunComplete
    /\ df # {}
    /\ finance # df
    /\ screen.finance_table.data = df

\* C4: no aggregation runs on a transaction with a negative amount or a type
\* other than income / expense, or on a headcount record with a negative
\* headcount.
C4_InvalidRejected ==
    (pc = "charted" /\ fig.msg = "chart") =>
        /\ \A r \in df : r.amount >= 0 /\ r.type \in FlowTypes
        /\ \A h \in head_df : h.headcount >= 0

----------------------------------------------------------------------------
====
